---- MODULE Spec2Model ----
(***************************************************************************)
(* Model of geoplot.py: GeoPlot.__init__ and GeoPlot.render.               *)
(*                                                                         *)
(* render is modelled statement group by statement group (pc is the        *)
(* position inside render): the extraction loop over state_trajectory[:-1] *)
(* (one iteration per step), the timestamp comprehension, the GeoJSON      *)
(* assembly, json.dump to <name>.geojson, Template.substitute, and the     *)
(* write of <name>.html.  An exception leaves render at pc = "failed".     *)
(*                                                                         *)
(* Python lists are sequences; a Python index i (0-based) is position i+1. *)
(* Timestamps are integers counting seconds.  File writes are assumed to   *)
(* succeed (no I/O fault is modelled).                                     *)
(***************************************************************************)
EXTENDS Integers, Sequences, FiniteSets, TLC

\* ------------------------------------------------------------------ bounds

\* Longest trajectory (number of episodes) that is explored.
MaxEpisodes == 3

\* Largest num_episodes and num_steps_per_episode of the configuration.
MaxConfig == 2

\* ------------------------------------------------------------- input space

\* options["coordinates"] and options["feature"], already split on "/"
\* (read_var splits the path string with re.split("/", var_path)).
CoordinatePath == <<"agents", "locations">>
FeaturePath == <<"agents", "activity_level">>

\* Distinct numbers for every cell of every input array, so that the origin
\* (episode e, snapshot s, row r, column c) of an output value is visible.
CoordVal(e, s, r, c) == 1000 * e + 100 * s + 10 * r + c
FeatVal(e, s, r, c) == 5000 + 1000 * e + 100 * s + 10 * r + c

\* A (rows x 2) coordinate array of (lat, lon) pairs.
CoordArray(e, s, rows) ==
    [r \in 1..rows |-> <<CoordVal(e, s, r - 1, 0), CoordVal(e, s, r - 1, 1)>>]

\* A feature array: one-dimensional of length n (dim = 1), or nested of
\* shape (n, k) (dim = 2).
FeatArray(e, s, dim, n, k) ==
    IF dim = 1
    THEN [dim |-> 1, data |-> [r \in 1..n |-> FeatVal(e, s, r - 1, 0)]]
    ELSE [dim |-> 2,
          data |-> [r \in 1..n |-> [c \in 1..k |-> FeatVal(e, s, r - 1, c - 1)]]]

\* The shapes of the episodes that are explored.  nsnap: snapshots in the
\* episode; rows: rows of the coordinate array (-1: the coordinate path is
\* absent from the snapshot); dim, n, k: shape of the feature array (dim = 0:
\* the feature path is absent).
EpisodeShapes ==
    { [nsnap |-> 1, rows |-> 1, dim |-> 1, n |-> 1, k |-> 1],
      [nsnap |-> 2, rows |-> 2, dim |-> 1, n |-> 2, k |-> 1],
      [nsnap |-> 1, rows |-> 2, dim |-> 2, n |-> 2, k |-> 2],
      [nsnap |-> 1, rows |-> 2, dim |-> 1, n |-> 1, k |-> 1],
      [nsnap |-> 1, rows |-> -1, dim |-> 1, n |-> 1, k |-> 1],
      [nsnap |-> 1, rows |-> 1, dim |-> 0, n |-> 0, k |-> 0],
      [nsnap |-> 1, rows |-> 0, dim |-> 1, n |-> 0, k |-> 1],
      [nsnap |-> 0, rows |-> 0, dim |-> 0, n |-> 0, k |-> 0] }

\* One state snapshot: a nested mapping holding the two arrays, each under
\* its path unless the shape leaves the path out.
Snapshot(e, s, sh) ==
    LET loc == CoordArray(e, s, sh.rows)
        act == FeatArray(e, s, sh.dim, sh.n, sh.k)
    IN  IF sh.rows >= 0 /\ sh.dim > 0
        THEN [agents |-> [locations |-> loc, activity_level |-> act]]
        ELSE IF sh.rows >= 0
        THEN [agents |-> [locations |-> loc]]
        ELSE IF sh.dim > 0
        THEN [agents |-> [activity_level |-> act]]
        ELSE [agents |-> [id |-> e]]

Episode(e, sh) == [s \in 1..sh.nsnap |-> Snapshot(e, s, sh)]

\* The trajectory whose e-th episode has shape shapes[e].
Trajectory(shapes) == [e \in 1..Len(shapes) |-> Episode(e, shapes[e])]

Configs ==
    { [simulation_metadata |->
          [name |-> "sim", num_episodes |-> a, num_steps_per_episode |-> b]] :
      a \in 0..MaxConfig, b \in 0..MaxConfig }

\* The options dictionaries a GeoPlot is constructed with.
OptionSets ==
    { [cesium_token |-> "token", step_time |-> 3600,
       coordinates |-> CoordinatePath, feature |-> FeaturePath],
      [cesium_token |-> "token", step_time |-> 1,
       coordinates |-> CoordinatePath, feature |-> FeaturePath,
       visualization_type |-> "color"],
      [cesium_token |-> "token", step_time |-> 60,
       coordinates |-> CoordinatePath, feature |-> FeaturePath,
       visualization_type |-> "size"] }

\* pd.Timestamp.utcnow(): the wall clock, any instant.
ClockInstants == {0, 100000}

\* ------------------------------------------------------------------- state

VARIABLES
    self,              \* the GeoPlot object's attributes
    state_trajectory,  \* the argument of render
    pc,                \* position inside render
    error,             \* the exception that ended render, and where it rose
    i,                 \* index of the next episode of the extraction loop
    coordinates,       \* render's local: list of [lat, lon] rows
    feature_values,    \* render's local: one flattened list per episode
    start_time,        \* render's local: the captured wall-clock instant
    timestamps,        \* render's local
    geojson_data,      \* render's local: list of FeatureCollections
    html_content,      \* render's local: the substituted template
    geojson_file,      \* <name>.geojson in the working directory
    html_file          \* <name>.html in the working directory

vars == <<self, state_trajectory, pc, error, i, coordinates, feature_values,
          start_time, timestamps, geojson_data, html_content, geojson_file,
          html_file>>

\* No exception so far.
NoError == [kind |-> "", at |-> ""]

\* A file render has not opened.
Untouched == [written |-> FALSE]

\* ----------------------------------------------------------------- helpers

\* agent_torch.core.helpers.get_by_path: index into the nested mapping with
\* each key of the path in turn.
RECURSIVE get_by_path(_, _)
get_by_path(state, path) ==
    IF path = <<>> THEN state ELSE get_by_path(state[Head(path)], Tail(path))

\* Whether every key of the path is present (otherwise the lookup raises).
RECURSIVE PathResolves(_, _)
PathResolves(state, path) ==
    \/ path = <<>>
    \/ /\ Head(path) \in DOMAIN state
       /\ PathResolves(state[Head(path)], Tail(path))

read_var(state, var_path) == get_by_path(state, var_path)

\* Variant of FinalState: state[0], the first snapshot.
FinalStateFirst(state) == state[1]

\* state[-1]: the terminal snapshot of an episode.
FinalState(state) == state[Len(state)]

\* Variant of AllButLast: state_trajectory, the last episode included.
AllButLastKeepsAll(seq) == seq

\* state_trajectory[:-1]
AllButLast(seq) == SubSeq(seq, 1, Len(seq) - 1)

\* np.array(a).flatten().tolist(): row-major linearisation.
RECURSIVE ConcatRows(_)
ConcatRows(rows) ==
    IF rows = <<>> THEN <<>> ELSE Head(rows) \o ConcatRows(Tail(rows))

Flatten(a) == IF a.dim = 1 THEN a.data ELSE ConcatRows(a.data)

\* zip(xs, ys): as many pairs as the shorter list has elements.
Min(a, b) == IF a <= b THEN a ELSE b
ZipLen(xs, ys) == Min(Len(xs), Len(ys))

\* Timestamp.isoformat(): the ISO-8601 text of an instant.
IsoFormat(t) == [iso8601 |-> t]

\* f"entity_{idx}"
EntityId(idx) == [prefix |-> "entity_", idx |-> idx]

\* ---------------------------------------------------------------- __init__

GeoPlotInit(config, options) ==
    [config |-> config,
     cesium_token |-> options.cesium_token,
     step_time |-> options.step_time,
     entity_position |-> options.coordinates,
     entity_property |-> options.feature,
     visualization_type |->
         IF "visualization_type" \in DOMAIN options
         THEN options.visualization_type
         ELSE "color"]

Init ==
    /\ \E config \in Configs, options \in OptionSets :
           self = GeoPlotInit(config, options)
    /\ \E len \in 0..MaxEpisodes : \E shapes \in [1..len -> EpisodeShapes] :
           state_trajectory = Trajectory(shapes)
    /\ pc = "extract"
    /\ error = NoError
    /\ i = 1
    /\ coordinates = <<>>
    /\ feature_values = <<>>
    /\ start_time = 0
    /\ timestamps = <<>>
    /\ geojson_data = <<>>
    /\ html_content = <<>>
    /\ geojson_file = Untouched
    /\ html_file = Untouched

\* ------------------------------------------------------------------ render

\* render ends with an exception: nothing else changes.
Raise(kind) ==
    /\ pc' = "failed"
    /\ error' = [kind |-> kind, at |-> pc]

\* One iteration of "for state in state_trajectory[:-1]".
ExtractEpisode ==
    /\ pc = "extract"
    /\ i <= Len(AllButLast(state_trajectory))
    /\ LET state == AllButLast(state_trajectory)[i]
       IN  IF Len(state) = 0
           THEN \* state[-1] of an empty episode
                /\ Raise("IndexError")
                /\ UNCHANGED <<i, coordinates, feature_values>>
           ELSE LET final_state == FinalState(state)
                IN  IF ~PathResolves(final_state, self.entity_position)
                    THEN /\ Raise("KeyError")
                         /\ UNCHANGED <<i, coordinates, feature_values>>
                    ELSE IF ~PathResolves(final_state, self.entity_property)
                    THEN /\ Raise("KeyError")
                         /\ coordinates' = read_var(final_state, self.entity_position)
                         /\ UNCHANGED <<i, feature_values>>
                    ELSE /\ coordinates' = read_var(final_state, self.entity_position)
                         /\ feature_values' =
                                Append(feature_values,
                                       Flatten(read_var(final_state, self.entity_property)))
                         /\ i' = i + 1
                         /\ UNCHANGED <<pc, error>>
    /\ UNCHANGED <<self, state_trajectory, start_time, timestamps, geojson_data,
                   html_content, geojson_file, html_file>>

\* total_steps = num_episodes * num_steps_per_episode
TotalSteps(config) ==
    config.simulation_metadata.num_episodes
        * config.simulation_metadata.num_steps_per_episode

\* Variant of Timestamps: range(1, total_steps + 1).
TimestampsFromOne(start, step_time, total_steps) ==
    [j \in 1..total_steps |-> start + j * step_time]

\* [start_time + pd.Timedelta(seconds=i * step_time) for i in range(total_steps)]
Timestamps(start, step_time, total_steps) ==
    [j \in 1..total_steps |-> start + (j - 1) * step_time]

\* The loop has run out of episodes: capture the clock and build the time axis.
GenerateTimestamps ==
    /\ pc = "extract"
    /\ i > Len(AllButLast(state_trajectory))
    /\ \E now \in ClockInstants :
          /\ start_time' = now
          /\ timestamps' = Timestamps(now, self.step_time, TotalSteps(self.config))
    /\ pc' = "assemble"
    /\ UNCHANGED <<self, state_trajectory, error, i, coordinates, feature_values,
                   geojson_data, html_content, geojson_file, html_file>>

\* Variant of Feature: coordinates kept in input order [lat, lon].
FeatureUnreversed(idx, coord, time, values) ==
    [type |-> "Feature",
     geometry |-> [type |-> "Point", coordinates |-> <<coord[1], coord[2]>>],
     properties |-> [id |-> EntityId(idx),
                     value |-> values[idx + 1],
                     time |-> IsoFormat(time)]]

\* The Feature appended for entity idx (0-based) and one (time, values) pair.
Feature(idx, coord, time, values) ==
    [type |-> "Feature",
     geometry |-> [type |-> "Point", coordinates |-> <<coord[2], coord[1]>>],
     properties |-> [id |-> EntityId(idx),
                     value |-> values[idx + 1],
                     time |-> IsoFormat(time)]]

\* The features list of entity idx: one Feature per pair of zip(times, series).
Features(idx, coord, times, series) ==
    [k \in 1..ZipLen(times, series) |-> Feature(idx, coord, times[k], series[k])]

\* Variant of GeoJson: the last row of coords is left out.
GeoJsonDropsRow(coords, times, series) ==
    [r \in 1..(Len(coords) - 1) |->
        [type |-> "FeatureCollection",
         features |-> Features(r - 1, coords[r], times, series)]]

\* geojson_data: one FeatureCollection per row of coords, in row order.
GeoJson(coords, times, series) ==
    [r \in 1..Len(coords) |->
        [type |-> "FeatureCollection",
         features |-> Features(r - 1, coords[r], times, series)]]

\* values[idx] is evaluated for every row idx and every zipped pair; it raises
\* IndexError when idx is not an index of values.
AssemblyRaises(coords, times, series) ==
    \E r \in 1..Len(coords), k \in 1..ZipLen(times, series) : r > Len(series[k])

AssembleGeoJson ==
    /\ pc = "assemble"
    /\ IF AssemblyRaises(coordinates, timestamps, feature_values)
       THEN /\ Raise("IndexError")
            /\ UNCHANGED geojson_data
       ELSE /\ geojson_data' = GeoJson(coordinates, timestamps, feature_values)
            /\ pc' = "dump"
            /\ UNCHANGED error
    /\ UNCHANGED <<self, state_trajectory, i, coordinates, feature_values,
                   start_time, timestamps, html_content, geojson_file, html_file>>

\* json.dump(obj, f, ensure_ascii=False, indent=2): the indented JSON text.
JsonDump(obj) == [json |-> obj, indent |-> 2]

\* json.dumps(obj): the compact JSON text.
JsonDumps(obj) == [json |-> obj, compact |-> TRUE]

\* Variant of WriteGeoJson: the .geojson file is not written.
WriteGeoJsonSkipped ==
    /\ pc = "dump"
    /\ pc' = "substitute"
    /\ UNCHANGED <<self, state_trajectory, error, i, coordinates, feature_values,
                   start_time, timestamps, geojson_data, html_content,
                   geojson_file, html_file>>

\* with open(geojson_file, "w") ...: json.dump(geojson_data, f, indent=2)
WriteGeoJson ==
    /\ pc = "dump"
    /\ geojson_file' = [written |-> TRUE, content |-> JsonDump(geojson_data)]
    /\ pc' = "substitute"
    /\ UNCHANGED <<self, state_trajectory, error, i, coordinates, feature_values,
                   start_time, timestamps, geojson_data, html_content, html_file>>

\* ---------------------------------------------------------------- template

\* A stretch of literal template text (source lines from..to) with the number
\* of times the words "color" and "size" occur in it.
Lit(from, to, ncolor, nsize) ==
    [kind |-> "literal", from |-> from, to |-> to, color |-> ncolor, size |-> nsize]

\* A $name placeholder.
Placeholder(name) == [kind |-> "placeholder", name |-> name]

\* geoplot_template as string.Template reads it: literal text and placeholders.
geoplot_template ==
    << Lit(38, 55, 0, 0),   Placeholder("accessToken"),
       Lit(55, 69, 16, 0),  Placeholder("visualType"),
       Lit(69, 139, 4, 3),  Placeholder("visualType"),
       Lit(139, 151, 2, 1), Placeholder("visualType"),
       Lit(151, 165, 0, 1), Placeholder("data"),
       Lit(165, 166, 0, 0), Placeholder("startTime"),
       Lit(166, 167, 0, 0), Placeholder("stopTime"),
       Lit(167, 187, 0, 0) >>

\* Template.substitute(mapping): every placeholder is replaced by the value
\* the mapping gives its name; literal text is kept.
Substitute(template, mapping) ==
    [t \in 1..Len(template) |->
        IF template[t].kind = "placeholder"
        THEN [kind |-> "value", name |-> template[t].name,
              text |-> mapping[template[t].name]]
        ELSE template[t]]

\* Variant of TemplateMapping: the mode is always the default.
TemplateMappingDefaultMode(token, times, data, visualType) ==
    [accessToken |-> token,
     startTime |-> IsoFormat(times[1]),
     stopTime |-> IsoFormat(times[Len(times)]),
     data |-> JsonDumps(data),
     visualType |-> "color"]

\* The mapping render passes to substitute.
TemplateMapping(token, times, data, visualType) ==
    [accessToken |-> token,
     startTime |-> IsoFormat(times[1]),
     stopTime |-> IsoFormat(times[Len(times)]),
     data |-> JsonDumps(data),
     visualType |-> visualType]

\* timestamps[0] and timestamps[-1] raise IndexError on an empty list.
SubstituteTemplate ==
    /\ pc = "substitute"
    /\ IF Len(timestamps) = 0
       THEN /\ Raise("IndexError")
            /\ UNCHANGED html_content
       ELSE /\ html_content' =
                   Substitute(geoplot_template,
                              TemplateMapping(self.cesium_token, timestamps,
                                              geojson_data, self.visualization_type))
            /\ pc' = "write_html"
            /\ UNCHANGED error
    /\ UNCHANGED <<self, state_trajectory, i, coordinates, feature_values,
                   start_time, timestamps, geojson_data, geojson_file, html_file>>

\* with open(html_file, "w") ...: f.write(html_content)
WriteHtml ==
    /\ pc = "write_html"
    /\ html_file' = [written |-> TRUE, content |-> html_content]
    /\ pc' = "done"
    /\ UNCHANGED <<self, state_trajectory, error, i, coordinates, feature_values,
                   start_time, timestamps, geojson_data, html_content, geojson_file>>

Next ==
    \/ ExtractEpisode
    \/ GenerateTimestamps
    \/ AssembleGeoJson
    \/ WriteGeoJson
    \/ SubstituteTemplate
    \/ WriteHtml

Spec == Init /\ [][Next]_vars

\* ------------------------------------------------------ claims: vocabulary

\* The episodes render consumes: all of the trajectory but the last.
NumConsumed ==
    IF Len(state_trajectory) = 0 THEN 0 ELSE Len(state_trajectory) - 1

\* The last snapshot of the e-th episode of the trajectory, and the arrays
\* found in it under the two configured paths.
LastSnapshot(e) == state_trajectory[e][Len(state_trajectory[e])]
InputCoords(e) == LastSnapshot(e).agents.locations
InputFeatures(e) == LastSnapshot(e).agents.activity_level

ConfiguredSteps ==
    self.config.simulation_metadata.num_episodes
        * self.config.simulation_metadata.num_steps_per_episode

\* The FeatureCollections found in the written .geojson file.
Emitted == geojson_file.content.json

\* The number of Features every emitted collection must hold.
PairCount == IF ConfiguredSteps <= NumConsumed THEN ConfiguredSteps ELSE NumConsumed

\* ---------------------------------------------------------------------- C1

\* C1: every emitted FeatureCollection holds exactly
\* min(num_episodes * num_steps_per_episode, number of consumed episodes)
\* Features, and the assembly raises only for an index that is out of range in
\* a paired feature array, never for the length mismatch itself.
C1_FeatureCount ==
    /\ geojson_file.written =>
          \A r \in 1..Len(Emitted) : Len(Emitted[r].features) = PairCount
    /\ error.at = "assemble" =>
          \E k \in 1..PairCount :
              Len(Flatten(InputFeatures(k))) < Len(InputCoords(NumConsumed))

\* C1 witness: collections were emitted although the two lengths differ.
C1_Witness ==
    /\ geojson_file.written
    /\ Len(Emitted) > 0
    /\ ConfiguredSteps # NumConsumed
    /\ PairCount > 0
    /\ Len(Emitted[1].features) = PairCount

\* ---------------------------------------------------------------------- C2

\* C2: the k-th Feature of entity idx carries id entity_idx, the k-th
\* timestamp, and the idx-th element of the flattened feature array of the
\* last snapshot of the k-th episode; the last episode contributes nothing.
C2_FeatureContent ==
    geojson_file.written =>
        \A r \in 1..Len(Emitted) :
            /\ Len(Emitted[r].features) <= NumConsumed
            /\ \A k \in 1..Len(Emitted[r].features) :
                  LET p == Emitted[r].features[k].properties
                  IN  /\ p.id = EntityId(r - 1)
                      /\ p.time = IsoFormat(start_time + (k - 1) * self.step_time)
                      /\ p.value = Flatten(InputFeatures(k))[r]

\* C2 witness: an entity with two Features, one of them from an episode of
\* two snapshots.
C2_Witness ==
    /\ geojson_file.written
    /\ Len(Emitted) > 0
    /\ Len(Emitted[1].features) >= 2
    /\ \E k \in 1..2 : Len(state_trajectory[k]) = 2

\* ---------------------------------------------------------------------- C3

\* C3: with at least 2 episodes, there are as many FeatureCollections as the
\* coordinate array of the last consumed episode has rows, in row order:
\* collection i holds only Features with id entity_i.
C3_EntityCount ==
    (geojson_file.written /\ Len(state_trajectory) >= 2) =>
        /\ Len(Emitted) = Len(InputCoords(NumConsumed))
        /\ \A r \in 1..Len(Emitted) :
              \A k \in 1..Len(Emitted[r].features) :
                  Emitted[r].features[k].properties.id = EntityId(r - 1)

\* C3 witness: two consumed episodes whose coordinate arrays differ in their
\* number of rows, and Features were emitted.
C3_Witness ==
    /\ geojson_file.written
    /\ Len(state_trajectory) = 3
    /\ Len(InputCoords(1)) = 2
    /\ Len(InputCoords(2)) = 1
    /\ Len(Emitted) = 1
    /\ Len(Emitted[1].features) = 2

\* ---------------------------------------------------------------------- C4

\* C4: every Feature of entity idx has geometry.coordinates = [lon, lat] of
\* row idx of the coordinate array of the last consumed episode.
C4_Geometry ==
    geojson_file.written =>
        \A r \in 1..Len(Emitted) :
            \A k \in 1..Len(Emitted[r].features) :
                Emitted[r].features[k].geometry.coordinates
                    = << InputCoords(NumConsumed)[r][2], InputCoords(NumConsumed)[r][1] >>

\* C4 witness: an entity with two Features, whose position in the first
\* consumed episode differs from the one in the last consumed episode.
C4_Witness ==
    /\ geojson_file.written
    /\ Len(state_trajectory) = 3
    /\ Len(Emitted) > 0
    /\ Len(Emitted[1].features) = 2
    /\ InputCoords(1)[1] # InputCoords(2)[1]

\* ---------------------------------------------------------------------- C5

\* C5: once generated, the timestamps are num_episodes *
\* num_steps_per_episode many, element i is start + i * step_time for the one
\* captured start, and they increase strictly.
C5_Timestamps ==
    pc \in {"assemble", "dump", "substitute", "write_html", "done"} =>
        /\ Len(timestamps) = ConfiguredSteps
        /\ \A j \in 1..Len(timestamps) :
              timestamps[j] = start_time + (j - 1) * self.step_time
        /\ \A j \in 1..(Len(timestamps) - 1) :
              /\ timestamps[j] < timestamps[j + 1]
              /\ timestamps[j + 1] - timestamps[j] = self.step_time

\* C5 witness: a time axis of several elements whose length differs from the
\* number of consumed episodes.
C5_Witness ==
    /\ pc = "assemble"
    /\ Len(timestamps) >= 3
    /\ Len(timestamps) # NumConsumed
    /\ start_time > 0

\* ---------------------------------------------------------------------- C6

\* C6: render of a trajectory of 0 or 1 episodes never fails, whatever the
\* configuration: it consumes no episode, emits an empty GeoJSON array and
\* writes both files.
C6_EmptyTrajectoryCompletes ==
    Len(state_trajectory) <= 1 =>
        /\ pc # "failed"
        /\ pc = "done" =>
              /\ i = 1
              /\ geojson_file.written /\ Emitted = <<>>
              /\ html_file.written

\* ---------------------------------------------------------------------- C7

\* The substitution sites of the mode flag in a substituted template.
ModeSites(html) ==
    { t \in 1..Len(html) : html[t].kind = "value" /\ html[t].name = "visualType" }

\* How often a mode word ("color" or "size") occurs in a substituted
\* template: in its literal text and as the value put at a mode site.
RECURSIVE Occurrences(_, _)
Occurrences(html, word) ==
    IF html = <<>> THEN 0
    ELSE LET h == Head(html)
             here == IF h.kind = "literal"
                     THEN (IF word = "color" THEN h.color ELSE h.size)
                     ELSE IF h.name = "visualType" /\ h.text = word THEN 1 ELSE 0
         IN  here + Occurrences(Tail(html), word)

\* C7 as stated: the mode flag is substituted at exactly one site of the
\* written HTML and occurs exactly once in it.
C7_ExactlyOnce ==
    html_file.written =>
        /\ Cardinality(ModeSites(html_file.content)) = 1
        /\ Occurrences(html_file.content, self.visualization_type) = 1

\* C7 amended: the mode flag is substituted verbatim at each of the three
\* sites the template has for it (source lines 69, 139 and 151), and at no
\* other site.
C7_ThreeSites ==
    html_file.written =>
        /\ Cardinality(ModeSites(html_file.content)) = 3
        /\ \A t \in ModeSites(html_file.content) :
              html_file.content[t].text = self.visualization_type
        /\ self.visualization_type \in {"color", "size"}
        /\ \A t \in 1..Len(html_file.content) :
              html_file.content[t].kind # "placeholder"

\* C7 witness: an HTML file written in mode "size".
C7_Witness ==
    /\ html_file.written
    /\ self.visualization_type = "size"
    /\ ModeSites(html_file.content) # {}

\* ---------------------------------------------------------------------- C8

\* C8: the value in a Feature of entity idx is a value of row idx of the
\* feature array it was read from, whatever the shape of that array.
C8_ValueBelongsToEntity ==
    geojson_file.written =>
        \A r \in 1..Len(Emitted) :
            \A k \in 1..Len(Emitted[r].features) :
                LET a == InputFeatures(k)
                    v == Emitted[r].features[k].properties.value
                IN  IF a.dim = 1
                    THEN v = a.data[r]
                    ELSE /\ r <= Len(a.data)
                         /\ \E c \in 1..Len(a.data[r]) : v = a.data[r][c]

\* ---------------------------------------------------------------------- C9

\* C9: render completes only if every consumed episode's flattened feature
\* array has an element for every row of the final coordinate array, paired
\* with a timestamp or not; otherwise it fails with an IndexError.
C9_EveryArrayValidated ==
    pc = "done" =>
        \A e \in 1..NumConsumed :
            Len(Flatten(InputFeatures(e))) >= Len(InputCoords(NumConsumed))

\* --------------------------------------------------------------------- C10

\* C10: the .html file is written only after the .geojson file; a failure in
\* extraction or assembly leaves both files untouched; a failure while the
\* template is substituted leaves the .geojson written and the .html
\* untouched; these are the only places render fails.
C10_WriteOrder ==
    /\ html_file.written => geojson_file.written
    /\ pc = "write_html" => geojson_file.written
    /\ error.at \in {"extract", "assemble"} =>
          ~geojson_file.written /\ ~html_file.written
    /\ error.at = "substitute" => geojson_file.written /\ ~html_file.written
    /\ pc = "failed" => error.at \in {"extract", "assemble", "substitute"}

\* C10 witness: timestamps[0] raised on an empty time axis, after the
\* .geojson file was written.
C10_Witness ==
    /\ pc = "failed"
    /\ error.at = "substitute"
    /\ ConfiguredSteps = 0
    /\ geojson_file.written
    /\ ~html_file.written

====
